---- MODULE Spec2Model ----
(***************************************************************************)
(* eventstream-parser: the chunk-boundary-safe UTF-8 decoder (Utf8Stream,  *)
(* src/src/utf8_stream.rs) and the incremental server-sent-events grammar  *)
(* parser (src/src/parser.rs, nom streaming combinators).                  *)
(*                                                                         *)
(* Bytes are integers 0..255, texts are sequences of Unicode code points.  *)
(***************************************************************************)
EXTENDS Integers, Sequences, FiniteSets, TLC

VARIABLES buffer, terminated, polled, received, items, ret,
          text, fed, residue, collected, doc, lexed

utf8vars == <<buffer, terminated, polled, received, items, ret>>
parservars == <<text, fed, residue, collected, doc, lexed>>
vars == <<buffer, terminated, polled, received, items, ret,
          text, fed, residue, collected, doc, lexed>>

(***************************************************************************)
(* Bounds of the model.                                                    *)
(***************************************************************************)
\* total number of bytes the upstream delivers
MaxBytes == 4
\* number of chunks and errors the upstream delivers before it ends
MaxItems == 4

\* The byte values chunks are made of: an ASCII byte, the lead bytes of a
\* 2- and a 4-byte sequence, and a continuation byte (which is invalid where
\* no sequence is open, as an ASCII or lead byte is inside one).
ByteValues == {65, 195, 240, 159}

\* The errors the upstream byte source can report.
TransportErrors == {"reset"}

RECURSIVE SeqsUpTo(_, _)
SeqsUpTo(S, n) ==
    IF n = 0 THEN {<<>>}
    ELSE LET shorter == SeqsUpTo(S, n - 1)
         IN  shorter \cup {Append(s, x) : s \in {t \in shorter : Len(t) = n - 1}, x \in S}

Drop(s, n) == SubSeq(s, n + 1, Len(s))
Take(s, n) == SubSeq(s, 1, n)

(***************************************************************************)
(* String::from_utf8 (core::str::from_utf8): the validation the standard   *)
(* library runs, with Utf8Error::valid_up_to and Utf8Error::error_len.     *)
(***************************************************************************)
IsCont(b) == b >= 128 /\ b <= 191

\* UTF8_CHAR_WIDTH: the length a first byte announces, 0 for a byte that
\* starts no sequence.
Utf8CharWidth(b) ==
    IF b < 128 THEN 1
    ELSE IF b >= 194 /\ b <= 223 THEN 2
    ELSE IF b >= 224 /\ b <= 239 THEN 3
    ELSE IF b >= 240 /\ b <= 244 THEN 4
    ELSE 0

\* The range of the second byte, which depends on the first.
SecondOk(first, b) ==
    IF first = 224 THEN b >= 160 /\ b <= 191
    ELSE IF first = 237 THEN b >= 128 /\ b <= 159
    ELSE IF first = 240 THEN b >= 144 /\ b <= 191
    ELSE IF first = 244 THEN b >= 128 /\ b <= 143
    ELSE IsCont(b)

\* The sequence starting at index i of bytes: [ok, len] when it is a whole
\* character, else [ok |-> FALSE, len |-> error_len] with error_len 0 for
\* "None" (the input ends inside the sequence).
CharAt(bytes, i) ==
    LET first == bytes[i]
        w == Utf8CharWidth(first)
        n == Len(bytes)
    IN  IF w = 0 THEN [ok |-> FALSE, len |-> 1]
        ELSE IF w = 1 THEN [ok |-> TRUE, len |-> 1]
        ELSE IF i + 1 > n THEN [ok |-> FALSE, len |-> 0]
        ELSE IF ~SecondOk(first, bytes[i + 1]) THEN [ok |-> FALSE, len |-> 1]
        ELSE IF w = 2 THEN [ok |-> TRUE, len |-> 2]
        ELSE IF i + 2 > n THEN [ok |-> FALSE, len |-> 0]
        ELSE IF ~IsCont(bytes[i + 2]) THEN [ok |-> FALSE, len |-> 2]
        ELSE IF w = 3 THEN [ok |-> TRUE, len |-> 3]
        ELSE IF i + 3 > n THEN [ok |-> FALSE, len |-> 0]
        ELSE IF ~IsCont(bytes[i + 3]) THEN [ok |-> FALSE, len |-> 3]
        ELSE [ok |-> TRUE, len |-> 4]

\* run_utf8_validation from index i: Ok, or the Utf8Error.
RECURSIVE Utf8Validation(_, _)
Utf8Validation(bytes, i) ==
    IF i > Len(bytes) THEN [ok |-> TRUE, valid_up_to |-> Len(bytes), error_len |-> 0]
    ELSE LET c == CharAt(bytes, i)
         IN  IF c.ok THEN Utf8Validation(bytes, i + c.len)
             ELSE [ok |-> FALSE, valid_up_to |-> i - 1, error_len |-> c.len]

FromUtf8(bytes) == Utf8Validation(bytes, 1)

\* The code points of a valid UTF-8 byte string (what the String holds).
CodePoint(bytes, i, len) ==
    IF len = 1 THEN bytes[i]
    ELSE IF len = 2 THEN (bytes[i] % 32) * 64 + (bytes[i + 1] % 64)
    ELSE IF len = 3 THEN (bytes[i] % 16) * 4096 + (bytes[i + 1] % 64) * 64
                         + (bytes[i + 2] % 64)
    ELSE (bytes[i] % 8) * 262144 + (bytes[i + 1] % 64) * 4096
         + (bytes[i + 2] % 64) * 64 + (bytes[i + 3] % 64)

RECURSIVE Chars(_, _)
Chars(bytes, i) ==
    IF i > Len(bytes) THEN <<>>
    ELSE LET c == CharAt(bytes, i)
         IN  IF c.ok THEN <<CodePoint(bytes, i, c.len)>> \o Chars(bytes, i + c.len)
             ELSE <<-1>> \o Chars(bytes, i + 1)

(***************************************************************************)
(* Utf8Stream                                                              *)
(***************************************************************************)
OkItem(bytes) == [tag |-> "Ok", bytes |-> bytes, err |-> ""]
Utf8Err(bytes) == [tag |-> "Utf8", bytes |-> bytes, err |-> ""]
TransportErr(e) == [tag |-> "Transport", bytes |-> <<>>, err |-> e]

\* What one poll answers: next is the state after it, ret the Poll value
\* ("Pending", "None" or "Item" with the item), upstream whether the inner
\* stream was polled.
Answer(buf, term, kind, item, upstream) ==
    [buffer |-> buf, terminated |-> term, ret |-> kind, item |-> item,
     upstream |-> upstream]

NoItem == OkItem(<<>>)

\* OnBytes without line 59: the buffered bytes are not put before the chunk.
OnBytesForgetsBuffer(buf, bytes) ==
    LET res == FromUtf8(bytes)
    IN  IF res.ok
        THEN Answer(<<>>, FALSE, "Item", OkItem(bytes), TRUE)
        ELSE Answer(Drop(bytes, res.valid_up_to), FALSE, "Item",
                    OkItem(Take(bytes, res.valid_up_to)), TRUE)

\* OnBytes without line 66: the bytes after the valid prefix are not put back
\* into the buffer.
OnBytesDropsRest(buf, bytes) ==
    LET all == buf \o bytes
        res == FromUtf8(all)
    IN  IF res.ok
        THEN Answer(<<>>, FALSE, "Item", OkItem(all), TRUE)
        ELSE Answer(<<>>, FALSE, "Item", OkItem(Take(all, res.valid_up_to)), TRUE)

\* OnBytes with the buffer copied instead of taken (line 60): it keeps the
\* bytes that were decoded.
OnBytesCopiesBuffer(buf, bytes) ==
    LET all == buf \o bytes
        res == FromUtf8(all)
    IN  IF res.ok
        THEN Answer(all, FALSE, "Item", OkItem(all), TRUE)
        ELSE Answer(Drop(all, res.valid_up_to), FALSE, "Item",
                    OkItem(Take(all, res.valid_up_to)), TRUE)

\* Poll::Ready(Some(Ok(bytes))), lines 58-71.
OnBytes(buf, bytes) ==
    LET all == buf \o bytes
        res == FromUtf8(all)
    IN  IF res.ok
        THEN Answer(<<>>, FALSE, "Item", OkItem(all), TRUE)
        ELSE Answer(Drop(all, res.valid_up_to), FALSE, "Item",
                    OkItem(Take(all, res.valid_up_to)), TRUE)

\* Poll::Ready(Some(Err(err))), line 72.
OnTransportError(buf, e) ==
    Answer(buf, FALSE, "Item", TransportErr(e), TRUE)

\* OnEnd with the buffer read by reference instead of taken (line 79).
OnEndKeepsBuffer(buf) ==
    IF buf = <<>>
    THEN Answer(<<>>, TRUE, "None", NoItem, TRUE)
    ELSE Answer(buf, TRUE, "Item",
                IF FromUtf8(buf).ok THEN OkItem(buf) ELSE Utf8Err(buf), TRUE)

\* Poll::Ready(None), lines 73-83.
OnEnd(buf) ==
    IF buf = <<>>
    THEN Answer(<<>>, TRUE, "None", NoItem, TRUE)
    ELSE Answer(<<>>, TRUE, "Item",
                IF FromUtf8(buf).ok THEN OkItem(buf) ELSE Utf8Err(buf), TRUE)

\* Poll::Pending, line 84.
OnPending(buf) == Answer(buf, FALSE, "Pending", NoItem, TRUE)

\* The early return of lines 54-56.
OnTerminated(buf) == Answer(buf, TRUE, "None", NoItem, FALSE)

\* poll_next without the early return of lines 54-56.
PollNextNoEarlyReturn(buf, term, r) ==
    IF r.kind = "Bytes" THEN OnBytes(buf, r.bytes)
    ELSE IF r.kind = "Err" THEN OnTransportError(buf, r.err)
    ELSE IF r.kind = "End" THEN OnEnd(buf)
    ELSE OnPending(buf)

\* poll_next: r is what the inner stream answers if it is polled.
PollNext(buf, term, r) ==
    IF term THEN OnTerminated(buf)
    ELSE IF r.kind = "Bytes" THEN OnBytes(buf, r.bytes)
    ELSE IF r.kind = "Err" THEN OnTransportError(buf, r.err)
    ELSE IF r.kind = "End" THEN OnEnd(buf)
    ELSE OnPending(buf)

Upstream(kind, bytes, e) == [kind |-> kind, bytes |-> bytes, err |-> e]

\* What the inner stream may answer to one more poll.
UpstreamAnswers ==
    {Upstream("Bytes", c, "") : c \in IF Len(items) < MaxItems
                                      THEN SeqsUpTo(ByteValues, MaxBytes - Len(received))
                                      ELSE {}}
    \cup {Upstream("Err", <<>>, e) : e \in IF Len(items) < MaxItems
                                           THEN TransportErrors ELSE {}}
    \cup {Upstream("End", <<>>, ""), Upstream("Pending", <<>>, "")}

NotPolled == Upstream("NotPolled", <<>>, "")

poll_next(r) ==
    LET a == PollNext(buffer, terminated, r)
    IN  /\ buffer' = a.buffer
        /\ terminated' = a.terminated
        /\ ret' = a.ret
        /\ items' = IF a.ret = "Item" THEN Append(items, a.item) ELSE items
        /\ polled' = IF a.upstream THEN r ELSE NotPolled
        /\ received' = IF a.upstream /\ r.kind = "Bytes"
                       THEN received \o r.bytes ELSE received
        /\ UNCHANGED parservars

Utf8Init ==
    /\ buffer = <<>>
    /\ terminated = FALSE
    /\ polled = NotPolled
    /\ received = <<>>
    /\ items = <<>>
    /\ ret = "Pending"

ParserIdle ==
    /\ text = <<>>
    /\ fed = 0
    /\ residue = <<>>
    /\ collected = <<>>
    /\ doc = <<>>
    /\ lexed = [parser |-> "none", result |-> [tag |-> "Incomplete", rest |-> <<>>, out |-> <<>>]]

Init == Utf8Init /\ ParserIdle

Next == \E r \in UpstreamAnswers : poll_next(r)

Spec == Init /\ [][Next]_vars

(***************************************************************************)
(* The grammar's characters (parser.rs, lines 36-78).                      *)
(***************************************************************************)
LF == 10
CR == 13
SPACE == 32
COLON == 58
BOM == 65279

is_lf(c) == c = LF
is_cr(c) == c = CR
is_space(c) == c = SPACE
is_colon(c) == c = COLON
is_bom(c) == c = BOM

\* is_name_char with its last range ended at U+D7FF.
is_name_char_bmp_low(c) ==
    \/ c >= 0 /\ c <= 9
    \/ c >= 11 /\ c <= 12
    \/ c >= 14 /\ c <= 57
    \/ c >= 59 /\ c <= 55295

is_name_char(c) ==
    \/ c >= 0 /\ c <= 9
    \/ c >= 11 /\ c <= 12
    \/ c >= 14 /\ c <= 57
    \/ c >= 59 /\ c <= 1114111

is_any_char(c) ==
    \/ c >= 0 /\ c <= 9
    \/ c >= 11 /\ c <= 12
    \/ c >= 14 /\ c <= 1114111

(***************************************************************************)
(* nom's streaming combinators, as parser.rs uses them (imported in lines  *)
(* 1-6: alt, tag, take_while, take_while1, take_while_m_n, opt, many_till, *)
(* preceded, terminated, tuple).  A parser takes the input and answers     *)
(* Ok(rest, out), Incomplete or Error.                                     *)
(***************************************************************************)
Ok(rest, out) == [tag |-> "Ok", rest |-> rest, out |-> out]
Incomplete == [tag |-> "Incomplete", rest |-> <<>>, out |-> <<>>]
Error == [tag |-> "Error", rest |-> <<>>, out |-> <<>>]

None == [some |-> FALSE, v |-> <<>>]
Some(v) == [some |-> TRUE, v |-> v]

\* The length in bytes of a character and of a &str (InputLength::input_len).
Utf8Len(c) == IF c < 128 THEN 1 ELSE IF c < 2048 THEN 2 ELSE IF c < 65536 THEN 3 ELSE 4

RECURSIVE InputLen(_)
InputLen(input) ==
    IF input = <<>> THEN 0 ELSE Utf8Len(input[1]) + InputLen(Tail(input))

\* InputTakeAtPosition / InputIter::position: how many characters come
\* before the first one that does not satisfy cond, -1 when all do.
Position(cond(_), input) ==
    IF \A i \in 1..Len(input) : cond(input[i]) THEN -1
    ELSE (CHOOSE i \in 1..Len(input) :
              ~cond(input[i]) /\ \A j \in 1..(i - 1) : cond(input[j])) - 1

\* take_split at a character index.
Split(input, n) == Ok(Drop(input, n), Take(input, n))

\* bytes::complete::tag in the place of the streaming one: a short input is an
\* Error, not Incomplete.
tag_complete(t, input) ==
    LET n == IF Len(t) < Len(input) THEN Len(t) ELSE Len(input)
    IN  IF \E i \in 1..n : input[i] # t[i] THEN Error
        ELSE IF Len(input) >= Len(t) THEN Split(input, Len(t))
        ELSE Error

\* bytes::streaming::tag
tag(t, input) ==
    LET n == IF Len(t) < Len(input) THEN Len(t) ELSE Len(input)
    IN  IF \E i \in 1..n : input[i] # t[i] THEN Error
        ELSE IF Len(input) >= Len(t) THEN Split(input, Len(t))
        ELSE Incomplete

\* bytes::streaming::take_while_m_n
take_while_m_n(m, n, cond(_), input) ==
    LET idx == Position(cond, input)
    IN  IF idx >= 0
        THEN IF idx >= m
             THEN (IF idx <= n THEN Split(input, idx) ELSE Split(input, n))
             ELSE Error
        ELSE IF InputLen(input) >= n
             THEN (IF Len(input) >= n THEN Split(input, n) ELSE Error)
             ELSE Incomplete

\* bytes::streaming::take_while
take_while(cond(_), input) ==
    LET idx == Position(cond, input)
    IN  IF idx < 0 THEN Incomplete ELSE Split(input, idx)

\* bytes::streaming::take_while1
take_while1(cond(_), input) ==
    LET idx == Position(cond, input)
    IN  IF idx < 0 THEN Incomplete
        ELSE IF idx = 0 THEN Error
        ELSE Split(input, idx)

\* let r = v; F(r): the value is computed once and then used.
Bind(v, F(_)) == CHOOSE x \in {F(r) : r \in {v}} : TRUE

\* combinator::opt
opt(p(_), input) ==
    Bind(p(input),
         LAMBDA r : IF r.tag = "Ok" THEN Ok(r.rest, Some(r.out))
                    ELSE IF r.tag = "Error" THEN Ok(input, None)
                    ELSE r)

\* sequence::preceded
preceded(p(_), q(_), input) ==
    Bind(p(input), LAMBDA r : IF r.tag = "Ok" THEN q(r.rest) ELSE r)

\* sequence::terminated (the name terminated is the field of Utf8Stream)
seq_terminated(p(_), q(_), input) ==
    Bind(p(input),
         LAMBDA r : IF r.tag # "Ok" THEN r
                    ELSE Bind(q(r.rest),
                              LAMBDA e : IF e.tag = "Ok" THEN Ok(e.rest, r.out) ELSE e))

\* sequence::tuple of two parsers
tuple(p(_), q(_), input) ==
    Bind(p(input),
         LAMBDA r : IF r.tag # "Ok" THEN r
                    ELSE Bind(q(r.rest),
                              LAMBDA s : IF s.tag = "Ok"
                                         THEN Ok(s.rest, <<r.out, s.out>>) ELSE s))

\* branch::alt of two and of three parsers: the next one is tried on Error
\* only.
alt2(p(_), q(_), input) ==
    Bind(p(input), LAMBDA r : IF r.tag = "Error" THEN q(input) ELSE r)

alt3(p(_), q(_), s(_), input) ==
    Bind(p(input), LAMBDA r : IF r.tag = "Error" THEN alt2(q, s, input) ELSE r)

(***************************************************************************)
(* The grammar (parser.rs, lines 80-138).                                  *)
(***************************************************************************)
Comment(c) == [kind |-> "Comment", text |-> c, value |-> None]
Field(name, value) == [kind |-> "Field", text |-> name, value |-> value]

\* crlf with the complete tag: a CR the text ends with is not the start of a
\* CRLF.
crlf_complete(input) == tag_complete(<<CR, LF>>, input)

crlf(input) == tag(<<CR, LF>>, input)

\* end_of_line without its first alternative: CR and LF are each an
\* end-of-line of their own.
end_of_line_no_crlf(input) ==
    alt2(LAMBDA i : take_while_m_n(1, 1, is_cr, i),
         LAMBDA i : take_while_m_n(1, 1, is_lf, i),
         input)

end_of_line(input) ==
    alt3(crlf,
         LAMBDA i : take_while_m_n(1, 1, is_cr, i),
         LAMBDA i : take_while_m_n(1, 1, is_lf, i),
         input)

comment(input) ==
    Bind(preceded(LAMBDA i : take_while_m_n(1, 1, is_colon, i),
                  LAMBDA i : seq_terminated(LAMBDA j : take_while(is_any_char, j),
                                            end_of_line, i),
                  input),
         LAMBDA r : IF r.tag = "Ok" THEN Ok(r.rest, Comment(r.out)) ELSE r)

\* field with the value unwrapped to its default: no ':' gives Some("").
field_value_defaulted(input) ==
    Bind(seq_terminated(
            LAMBDA i : tuple(
                LAMBDA j : take_while1(is_name_char, j),
                LAMBDA j : opt(
                    LAMBDA k : preceded(
                        LAMBDA l : take_while_m_n(1, 1, is_colon, l),
                        LAMBDA l : preceded(
                            LAMBDA m : opt(LAMBDA n : take_while_m_n(1, 1, is_space, n), m),
                            LAMBDA m : take_while(is_any_char, m),
                            l),
                        k),
                    j),
                i),
            end_of_line,
            input),
         LAMBDA r : IF r.tag = "Ok"
                    THEN Ok(r.rest, Field(r.out[1], Some(r.out[2].v)))
                    ELSE r)

\* field without the opt(space) of line 110: the space after ':' stays in
\* the value.
field_keeps_space(input) ==
    Bind(seq_terminated(
            LAMBDA i : tuple(
                LAMBDA j : take_while1(is_name_char, j),
                LAMBDA j : opt(
                    LAMBDA k : preceded(
                        LAMBDA l : take_while_m_n(1, 1, is_colon, l),
                        LAMBDA l : take_while(is_any_char, l),
                        k),
                    j),
                i),
            end_of_line,
            input),
         LAMBDA r : IF r.tag = "Ok" THEN Ok(r.rest, Field(r.out[1], r.out[2])) ELSE r)

field(input) ==
    Bind(seq_terminated(
            LAMBDA i : tuple(
                LAMBDA j : take_while1(is_name_char, j),
                LAMBDA j : opt(
                    LAMBDA k : preceded(
                        LAMBDA l : take_while_m_n(1, 1, is_colon, l),
                        LAMBDA l : preceded(
                            LAMBDA m : opt(LAMBDA n : take_while_m_n(1, 1, is_space, n), m),
                            LAMBDA m : take_while(is_any_char, m),
                            l),
                        k),
                    j),
                i),
            end_of_line,
            input),
         LAMBDA r : IF r.tag = "Ok" THEN Ok(r.rest, Field(r.out[1], r.out[2])) ELSE r)

\* multi::many_till(alt((comment, field)), end_of_line), from input i with
\* the lines res already taken.
RECURSIVE many_till(_, _)
many_till(i, res) ==
    Bind(end_of_line(i),
         LAMBDA g :
            IF g.tag = "Ok" THEN Ok(g.rest, res)
            ELSE IF g.tag # "Error" THEN g
            ELSE Bind(alt2(comment, field, i),
                      LAMBDA f :
                         IF f.tag # "Ok" THEN f
                         ELSE IF InputLen(f.rest) = InputLen(i) THEN Error
                         ELSE many_till(f.rest, Append(res, f.out))))

\* A RawEvent is the sequence of its lines.
event(input) == many_till(input, <<>>)

\* The loop of events giving back what the failed call of event left over
\* (nothing), not the input it was given.
RECURSIVE events_loop_drops_tail(_, _)
events_loop_drops_tail(input, out) ==
    Bind(event(input),
         LAMBDA r : IF r.tag = "Ok"
                    THEN events_loop_drops_tail(r.rest, Append(out, r.out))
                    ELSE Ok(r.rest, out))

\* The loop of events with line 127 pushing an event only when it has lines.
RECURSIVE events_loop_skips_empty(_, _)
events_loop_skips_empty(input, out) ==
    Bind(event(input),
         LAMBDA r : IF r.tag = "Ok"
                    THEN events_loop_skips_empty(
                             r.rest, IF r.out = <<>> THEN out ELSE Append(out, r.out))
                    ELSE Ok(input, out))

\* The loop of events, with the events out already pushed.
RECURSIVE events_loop(_, _)
events_loop(input, out) ==
    Bind(event(input),
         LAMBDA r : IF r.tag = "Ok" THEN events_loop(r.rest, Append(out, r.out))
                    ELSE Ok(input, out))

events(input) == events_loop(input, <<>>)

\* stream without the opt(bom) of line 137: the text goes to events as it is.
stream_keeps_bom(input) ==
    IF input = <<>> THEN Ok(input, <<>>)
    ELSE events(input)

stream(input) ==
    IF input = <<>> THEN Ok(input, <<>>)
    ELSE preceded(LAMBDA i : opt(LAMBDA j : take_while_m_n(1, 1, is_bom, j), i),
                  events, input)

(***************************************************************************)
(* The caller of the parser: the text of the stream arrives in pieces, and *)
(* each piece is parsed with the residue of the call before put in front.  *)
(***************************************************************************)
\* length of the texts parsed
MaxText == 4

\* The characters texts are made of: the four the grammar names, the byte
\* order mark and a letter.
Alphabet == {LF, CR, SPACE, COLON, BOM, 97}

Texts == SeqsUpTo(Alphabet, MaxText)

NotLexed == [parser |-> "none", result |-> Incomplete]

\* The next k characters of the text arrive and are parsed after the residue.
Feed(k) ==
    /\ fed + k <= Len(text)
    /\ \E r \in {events(residue \o SubSeq(text, fed + 1, fed + k))} :
          /\ r.tag = "Ok"
          /\ fed' = fed + k
          /\ residue' = r.rest
          /\ collected' = collected \o r.out
    /\ UNCHANGED <<text, doc, lexed, utf8vars>>

ParserInit ==
    /\ Utf8Init
    /\ text \in Texts
    /\ fed = 0
    /\ residue = <<>>
    /\ collected = <<>>
    /\ doc = <<>>
    /\ lexed = NotLexed

ParserNext == \E k \in 0..MaxText : Feed(k)

ParserSpec == ParserInit /\ [][ParserNext]_vars

(***************************************************************************)
(* Texts written row by row after the ABNF of parser.rs (lines 8-25): a    *)
(* row is a comment or field line, or is blank, and ends with one of the   *)
(* three forms of end-of-line.                                             *)
(***************************************************************************)
\* number of rows of a written text
MaxRows == 3

EndOfLines == {<<CR, LF>>, <<CR>>, <<LF>>}

\* The lines written: a comment and a field with a value.
DocBodies == {<<COLON, 97>>, <<97, COLON, 97>>}

Row(body, eol) == [body |-> body, eol |-> eol]

RowChoices == {Row(b, e) : b \in DocBodies \cup {<<>>}, e \in EndOfLines}

Docs == SeqsUpTo(RowChoices, MaxRows)

RECURSIVE Render(_)
Render(d) ==
    IF d = <<>> THEN <<>> ELSE d[1].body \o d[1].eol \o Render(Tail(d))

\* The length of the longest written text.
MaxDocText == MaxRows * 5

DocInit ==
    /\ Utf8Init
    /\ doc \in Docs
    /\ text = Render(doc)
    /\ fed = 0
    /\ residue = <<>>
    /\ collected = <<>>
    /\ lexed = NotLexed

\* One call of events, on the first k characters of the written text.
DocNext == fed = 0 /\ \E k \in 0..MaxDocText : Feed(k)

DocSpec == DocInit /\ [][DocNext]_vars

(***************************************************************************)
(* The lexer applied to one text.                                          *)
(***************************************************************************)
\* length of the texts lexed
MaxLine == 5

LineTexts == SeqsUpTo(Alphabet, MaxLine)

Lexers == {"comment", "field", "end_of_line"}

Lex(p) ==
    /\ lexed' = [parser |-> p,
                 result |-> IF p = "comment" THEN comment(text)
                            ELSE IF p = "field" THEN field(text)
                            ELSE end_of_line(text)]
    /\ UNCHANGED <<text, fed, residue, collected, doc, utf8vars>>

LexInit ==
    /\ Utf8Init
    /\ text \in LineTexts
    /\ fed = 0
    /\ residue = <<>>
    /\ collected = <<>>
    /\ doc = <<>>
    /\ lexed = NotLexed

LexNext == \E p \in Lexers : Lex(p)

LexSpec == LexInit /\ [][LexNext]_vars

(***************************************************************************)
(* The lexer applied to one written line: a comment or a field with a ':', *)
(* a run of spaces after the ':', the rest of the line, an end-of-line and *)
(* what follows the line.                                                  *)
(***************************************************************************)
\* length of the run of spaces written after the ':'
MaxSpaces == 3

RECURSIVE Spaces(_)
Spaces(k) == IF k = 0 THEN <<>> ELSE <<SPACE>> \o Spaces(k - 1)

\* The names written, and the rests of a line (none begins with a space).
LineNames == {<<97>>, <<SPACE, 97>>}
LineRests == {<<>>, <<97>>, <<COLON>>, <<97, SPACE, COLON>>}
LineFollowers == {<<>>, <<97>>, <<LF>>}

Line(kind, name, k, v, eol, after) ==
    [kind |-> kind, name |-> name, k |-> k, v |-> v, eol |-> eol, after |-> after]

WrittenLines ==
    {Line("field", n, k, v, e, f) :
        n \in LineNames, k \in 0..MaxSpaces, v \in LineRests,
        e \in EndOfLines, f \in LineFollowers}
    \cup {Line("comment", <<>>, k, v, e, f) :
        k \in 0..MaxSpaces, v \in LineRests,
        e \in EndOfLines, f \in LineFollowers}

RenderLine(l) == l.name \o <<COLON>> \o Spaces(l.k) \o l.v \o l.eol \o l.after

LineInit ==
    /\ Utf8Init
    /\ doc \in WrittenLines
    /\ text = RenderLine(doc)
    /\ fed = 0
    /\ residue = <<>>
    /\ collected = <<>>
    /\ lexed = NotLexed

LineNext == \E p \in Lexers : Lex(p)

LineSpec == LineInit /\ [][LineNext]_vars

(***************************************************************************)
(* The parser applied to one text.                                         *)
(***************************************************************************)
Parsers == {"event", "events", "stream"}

Parse(p) ==
    /\ lexed' = [parser |-> p,
                 result |-> IF p = "event" THEN event(text)
                            ELSE IF p = "events" THEN events(text)
                            ELSE stream(text)]
    /\ UNCHANGED <<text, fed, residue, collected, doc, utf8vars>>

TopInit ==
    /\ Utf8Init
    /\ text \in Texts
    /\ fed = 0
    /\ residue = <<>>
    /\ collected = <<>>
    /\ doc = <<>>
    /\ lexed = NotLexed

TopNext == \E p \in Parsers : Parse(p)

TopSpec == TopInit /\ [][TopNext]_vars

(***************************************************************************)
(* The caller of the parser, with stream as the function it calls on the   *)
(* residue and each new piece.                                             *)
(***************************************************************************)
FeedStream(k) ==
    /\ fed + k <= Len(text)
    /\ \E r \in {stream(residue \o SubSeq(text, fed + 1, fed + k))} :
          /\ r.tag = "Ok"
          /\ fed' = fed + k
          /\ residue' = r.rest
          /\ collected' = collected \o r.out
    /\ UNCHANGED <<text, doc, lexed, utf8vars>>

StreamInit ==
    /\ Utf8Init
    /\ text \in Texts
    /\ fed = 0
    /\ residue = <<>>
    /\ collected = <<>>
    /\ doc = <<>>
    /\ lexed = NotLexed

StreamNext == \E k \in 0..MaxText : FeedStream(k)

StreamSpec == StreamInit /\ [][StreamNext]_vars

(***************************************************************************)
(* The caller of events on texts of name characters, CR and LF, long       *)
(* enough for a line and a blank line that each end with CRLF.             *)
(***************************************************************************)
\* length of the texts of CR, LF and a letter
MaxCrlfText == 6

CrlfTexts == SeqsUpTo({CR, LF, 97}, MaxCrlfText)

CrlfInit ==
    /\ Utf8Init
    /\ text \in CrlfTexts
    /\ fed = 0
    /\ residue = <<>>
    /\ collected = <<>>
    /\ doc = <<>>
    /\ lexed = NotLexed

CrlfNext == \E k \in 0..MaxCrlfText : Feed(k)

CrlfSpec == CrlfInit /\ [][CrlfNext]_vars

(***************************************************************************)
(* Utf8Stream: the claims                                                  *)
(***************************************************************************)
Last(s) == s[Len(s)]

RECURSIVE TextOf(_)
\* The text of the Ok items of a sequence of items, as code points.
TextOf(its) ==
    IF its = <<>> THEN <<>>
    ELSE (IF its[1].tag = "Ok" THEN Chars(its[1].bytes, 1) ELSE <<>>)
         \o TextOf(Tail(its))

\* The items of a fresh Utf8Stream polled over one chunk and then the end.
OneChunk(bytes) ==
    LET a == PollNext(<<>>, FALSE, Upstream("Bytes", bytes, ""))
        b == PollNext(a.buffer, a.terminated, Upstream("End", <<>>, ""))
    IN  <<a.item>> \o (IF b.ret = "Item" THEN <<b.item>> ELSE <<>>)

NoTransportError == \A i \in 1..Len(items) : items[i].tag # "Transport"

\* C1: when the upstream has delivered valid UTF-8 in any chunks and ended
\* (without a transport error), every item is an Ok text and the texts put
\* together are the text one chunk with the whole input gives.
C1_ChunkBoundaryInvariance ==
    (terminated /\ FromUtf8(received).ok /\ NoTransportError)
        => /\ \A i \in 1..Len(items) : items[i].tag = "Ok"
           /\ TextOf(items) = TextOf(OneChunk(received))
           /\ \A i \in 1..Len(TextOf(items)) : TextOf(items)[i] >= 0

\* A 4-byte character delivered one byte per chunk, then the end.
C1_Witness ==
    /\ terminated
    /\ received = <<240, 159, 159, 159>>
    /\ Len(items) = 4
    /\ items[4] = OkItem(received)

\* The bytes after the longest valid prefix can never become valid
\* (Utf8Error::error_len is Some).
GenuineError(bytes) == ~FromUtf8(bytes).ok /\ FromUtf8(bytes).error_len > 0

\* C5: a poll that receives a chunk after which the undecoded rest is a
\* genuine encoding error answers Err(Utf8) and does not buffer that rest.
C5_GenuineErrorFails ==
    [][(polled'.kind = "Bytes" /\ GenuineError(buffer \o polled'.bytes))
        => /\ ret' = "Item"
           /\ Last(items').tag = "Utf8"
           /\ buffer' = <<>>]_vars

\* C6: an Err(Transport) item is the last item of the stream.
C6_TransportErrorIsLast ==
    \A i \in 1..Len(items) : items[i].tag = "Transport" => i = Len(items)

\* C7: once terminated, a poll answers None, does not poll the upstream and
\* leaves the buffer and the flag as they are.
C7_TerminationSticky ==
    [][terminated => /\ terminated'
                     /\ ret' = "None"
                     /\ polled' = NotPolled
                     /\ buffer' = buffer
                     /\ items' = items]_vars

\* A terminated stream that was polled again after its final Err(Utf8).
C7_Witness ==
    /\ terminated
    /\ polled = NotPolled
    /\ ret = "None"
    /\ items # <<>>
    /\ Last(items).tag = "Utf8"

\* C8: the poll that meets the end of the upstream sets terminated and empties
\* the buffer; it answers None for an empty buffer, else one item, Ok with the
\* buffered bytes if they are valid UTF-8 and Err(Utf8) if not; nothing is
\* produced after it.
C8_EndOfInputFlush ==
    [][/\ polled'.kind = "End"
          => /\ terminated'
             /\ buffer' = <<>>
             /\ buffer = <<>> => (ret' = "None" /\ items' = items)
             /\ buffer # <<>>
                  => /\ ret' = "Item"
                     /\ Len(items') = Len(items) + 1
                     /\ Take(items', Len(items)) = items
                     /\ Last(items').bytes = buffer
                     /\ Last(items').tag =
                            IF FromUtf8(buffer).ok THEN "Ok" ELSE "Utf8"
       /\ terminated => items' = items]_vars

\* The end met with a truncated sequence buffered after two Ok items.
C8_Witness ==
    /\ terminated
    /\ polled.kind = "End"
    /\ buffer = <<>>
    /\ Len(items) = 3
    /\ items[2].bytes # <<>>
    /\ Last(items) = Utf8Err(<<240, 159>>)

\* C9: the buffer never holds more than 3 bytes.
C9_BufferAtMostThree == Len(buffer) <= 3

(***************************************************************************)
(* The parser: the claims                                                  *)
(***************************************************************************)
\* What the grammar (ABNF, parser.rs lines 8-25) makes of the body of a line:
\* a comment is ':' and its payload; a field is its name, and after a ':'
\* the value, less one leading space.
HasColon(body) == \E i \in 1..Len(body) : body[i] = COLON

FirstColon(body) == CHOOSE i \in 1..Len(body) :
                        body[i] = COLON /\ \A j \in 1..(i - 1) : body[j] # COLON

AfterColon(body) == Drop(body, FirstColon(body))

LineOf(body) ==
    IF body[1] = COLON THEN Comment(Tail(body))
    ELSE IF ~HasColon(body) THEN Field(body, None)
    ELSE Field(Take(body, FirstColon(body) - 1),
               Some(IF AfterColon(body) # <<>> /\ AfterColon(body)[1] = SPACE
                    THEN Tail(AfterColon(body)) ELSE AfterColon(body)))

\* The text fed so far.
Prefix == Take(text, fed)

\* C2: after the text was fed in pieces, in any split, with the residue put
\* in front of each piece, the events collected and the residue are those of
\* one call of events on all of the text fed.
C2_ResidueThreading ==
    /\ events(Prefix).tag = "Ok"
    /\ collected = events(Prefix).out
    /\ residue = events(Prefix).rest

\* A piece ended between the CR and the LF of a CRLF, after an empty event.
C2_Witness ==
    /\ text = <<LF, 97, CR, LF>>
    /\ fed = 3
    /\ collected = <<<<>>>>
    /\ residue = <<97, CR>>

\* A written text that is one event: lines, then one blank row.
OneEvent(d) ==
    /\ d # <<>>
    /\ Last(d).body = <<>>
    /\ \A i \in 1..(Len(d) - 1) : d[i].body # <<>>

LinesOf(rows) == [i \in 1..Len(rows) |-> LineOf(rows[i].body)]

ParsedAsOneEvent(d) ==
    /\ events(text) = Ok(<<>>, <<LinesOf(Take(d, Len(d) - 1))>>)
    /\ collected = <<LinesOf(Take(d, Len(d) - 1))>>
    /\ residue = <<>>

\* C3 as stated: a text of lines and a blank row, each ended by any of CRLF,
\* CR and LF, parses to exactly one event with those lines and no residue.
C3_RoundTripAnyEndOfLine ==
    (OneEvent(doc) /\ fed = Len(text)) => ParsedAsOneEvent(doc)

\* A CR that ends a row is read with the LF of a following blank row as one
\* CRLF: the rows are the grammar's reading of the text when that never
\* happens.
GrammarReading(d) ==
    \A i \in 1..(Len(d) - 1) :
        ~(d[i].eol = <<CR>> /\ d[i + 1].body = <<>> /\ d[i + 1].eol = <<LF>>)

\* C3: a text of lines and a blank row parses to exactly one event with those
\* lines, in order, and no residue, when the blank row ends with CRLF or LF
\* and a lone CR does not end the last line before a lone LF.
C3_RoundTrip ==
    (OneEvent(doc) /\ GrammarReading(doc) /\ Last(doc).eol # <<CR>>
        /\ fed = Len(text))
        => ParsedAsOneEvent(doc)

\* ":a" CR, "a:a" CRLF and a blank row, parsed.
C3_Witness ==
    /\ doc = <<Row(<<COLON, 97>>, <<CR>>), Row(<<97, COLON, 97>>, <<CR, LF>>),
               Row(<<>>, <<LF>>)>>
    /\ fed = Len(text)
    /\ collected = <<<<Comment(<<97>>), Field(<<97>>, Some(<<97>>))>>>>
    /\ residue = <<>>

\* The rows of the written text that lie within the text fed so far, and
\* among them those up to the last blank one.
RowEnd(d, i) == Len(Render(Take(d, i)))

FedRows == Take(doc, Cardinality({i \in 1..Len(doc) : RowEnd(doc, i) <= fed}))

CompleteRows ==
    Take(FedRows, Cardinality({i \in 1..Len(FedRows) :
                                 \E j \in i..Len(FedRows) : FedRows[j].body = <<>>}))

\* The events of rows that end with a blank row.
RECURSIVE EventsOf(_, _)
EventsOf(rows, lines) ==
    IF rows = <<>> THEN <<>>
    ELSE IF rows[1].body = <<>> THEN <<lines>> \o EventsOf(Tail(rows), <<>>)
    ELSE EventsOf(Tail(rows), Append(lines, LineOf(rows[1].body)))

\* The text fed after the last complete event.
UnfinishedTail == SubSeq(text, Len(Render(CompleteRows)) + 1, fed)

\* C4: when the text fed is complete events followed by an unfinished one,
\* events gives exactly the complete events, and the residue is the text from
\* the first character of the unfinished event on, its whole lines included.
C4_IncompleteTailRetained ==
    (GrammarReading(FedRows) /\ UnfinishedTail # <<>>)
        => /\ events(Prefix) = Ok(UnfinishedTail, EventsOf(CompleteRows, <<>>))
           /\ collected = EventsOf(CompleteRows, <<>>)
           /\ residue = UnfinishedTail

\* One complete event, then a whole line and a part of the next one.
C4_Witness ==
    /\ doc = <<Row(<<>>, <<CR>>), Row(<<COLON, 97>>, <<LF>>),
               Row(<<97, COLON, 97>>, <<LF>>)>>
    /\ fed = Len(text) - 1
    /\ collected = <<<<>>>>
    /\ residue = <<COLON, 97, LF, 97, COLON, 97>>

\* The characters of a text before its first CR or LF.
FirstBody(t) ==
    Take(t, Cardinality({i \in 1..Len(t) :
                           \A j \in 1..i : t[j] # CR /\ t[j] # LF}))

\* C10: the value of a field is None exactly when its line has no ':', and it
\* is Some("") when nothing, or one space only, follows the first ':'.
C10_FieldValuePresence ==
    (lexed.parser = "field" /\ lexed.result.tag = "Ok")
        => /\ lexed.result.out.kind = "Field"
           /\ lexed.result.out.value = None <=> ~HasColon(FirstBody(text))
           /\ (HasColon(FirstBody(text))
                 /\ AfterColon(FirstBody(text)) \in {<<>>, <<SPACE>>})
                => lexed.result.out.value = Some(<<>>)

\* "a: " LF lexed: the value is Some("").
C10_Witness ==
    /\ text = <<97, COLON, SPACE, LF>>
    /\ lexed.parser = "field"
    /\ lexed.result = Ok(<<>>, Field(<<97>>, Some(<<>>)))

\* The end-of-line of a written line is all in the text: it is not a CR that
\* the text ends with or that an LF follows (which reads as a CRLF).
EolSettled(l) == l.eol = <<CR>> => (l.after # <<>> /\ l.after[1] # LF)

\* C11: lexing name ':' spaces v end-of-line, field gives the name written
\* before the first ':' and the value v after k = 0 or k = 1 spaces, and k - 1
\* spaces and v after k > 1 (later ':' stay in the value); comment gives all
\* of the spaces and v.
C11_OneSpaceStripped ==
    /\ (lexed.parser = "field" /\ doc.kind = "field" /\ EolSettled(doc))
          => lexed.result =
                Ok(doc.after,
                   Field(doc.name,
                         Some(IF doc.k = 0 THEN doc.v
                              ELSE Spaces(doc.k - 1) \o doc.v)))
    /\ (lexed.parser = "comment" /\ doc.kind = "comment" /\ EolSettled(doc))
          => lexed.result = Ok(doc.after, Comment(Spaces(doc.k) \o doc.v))

\* " a:  a :" CR LF lexed by field: the value is " a :".
C11_Witness ==
    /\ doc = Line("field", <<SPACE, 97>>, 2, <<97, SPACE, COLON>>, <<CR, LF>>, <<>>)
    /\ lexed.parser = "field"
    /\ lexed.result = Ok(<<>>, Field(<<SPACE, 97>>, Some(<<SPACE, 97, SPACE, COLON>>)))

StartsWithBom(t) == t # <<>> /\ t[1] = BOM

\* C12: stream applied to U+FEFF followed by a text t gives the events and the
\* residue of events applied to t (one BOM is removed, a second one is not),
\* which for t not starting with U+FEFF is what stream applied to t gives.
C12_LeadingBomTransparent ==
    (lexed.parser = "stream" /\ StartsWithBom(text))
        => /\ lexed.result = events(Tail(text))
           /\ ~StartsWithBom(Tail(text)) => lexed.result = stream(Tail(text))

\* U+FEFF "a" LF LF parsed by stream: one event with the field "a".
C12_Witness ==
    /\ text = <<BOM, 97, LF, LF>>
    /\ lexed.parser = "stream"
    /\ lexed.result = Ok(<<>>, <<<<Field(<<97>>, None)>>>>)

\* C13: when stream is called on the residue and each new piece, the events
\* collected once all of the text was fed, in any split, are the events of
\* one call of stream on the whole text.
C13_BomOnlyBeforeFirstEvent ==
    fed = Len(text) => collected = stream(text).out

\* C14: on every text events and stream answer Ok and event never answers
\* Error; the text events and stream leave over is one on which event answers
\* Incomplete.
C14_GrammarTotality ==
    /\ lexed.parser = "event" => lexed.result.tag \in {"Ok", "Incomplete"}
    /\ lexed.parser \in {"events", "stream"}
          => /\ lexed.result.tag = "Ok"
             /\ event(lexed.result.rest).tag = "Incomplete"

\* LF U+FEFF ":" parsed by events: an empty event, and the partial line is
\* left over.
C14_Witness ==
    /\ text = <<LF, BOM, COLON>>
    /\ lexed.parser = "events"
    /\ lexed.result = Ok(<<BOM, COLON>>, <<<<>>>>)

HasEol(t) == \E i \in 1..Len(t) : t[i] \in {CR, LF}

\* The end-of-line after the first line of a text that has one: CR LF when
\* both are there, else the one character.
FirstEol(t) ==
    LET n == Len(FirstBody(t))
    IN  IF t[n + 1] = CR /\ n + 2 <= Len(t) /\ t[n + 2] = LF
        THEN <<CR, LF>> ELSE <<t[n + 1]>>

AfterFirstLine(t) == Drop(t, Len(FirstBody(t)) + Len(FirstEol(t)))

\* The text begins with a line of the lexer p.
BeginsLine(p, t) ==
    /\ t # <<>>
    /\ \/ p = "comment" /\ is_colon(t[1])
       \/ p = "field" /\ is_name_char(t[1])

Recognized(t) == Ok(AfterFirstLine(t), LineOf(FirstBody(t)))

\* C15 as stated: on a text that begins with a comment or field line, the
\* lexer recognizes the line and gives the rest of the text whenever the text
\* holds a CR or LF, and answers Incomplete when it holds none.
C15_IncompleteIffNoEndOfLine ==
    BeginsLine(lexed.parser, text)
        => lexed.result = IF HasEol(text) THEN Recognized(text) ELSE Incomplete

\* The first end-of-line of the text is decided: it is an LF, or a CR that is
\* not the last character of the text.
EolDecided(t) ==
    HasEol(t) /\ (t[Len(FirstBody(t)) + 1] = CR => Len(FirstBody(t)) + 1 < Len(t))

\* C15: on a text that begins with a comment or field line, the lexer
\* recognizes the line and gives the rest of the text when the line is closed
\* by an LF or by a CR that another character follows; it answers Incomplete
\* when the text holds no CR or LF or ends with the CR that closes the line.
C15_IncompleteIffUndecided ==
    BeginsLine(lexed.parser, text)
        => lexed.result = IF EolDecided(text) THEN Recognized(text) ELSE Incomplete

\* "a:" CR "a" lexed by field: the line is recognized, "a" is left.
C15_Witness ==
    /\ text = <<97, COLON, CR, 97>>
    /\ lexed.parser = "field"
    /\ lexed.result = Ok(<<97>>, Field(<<97>>, Some(<<>>)))

\* The events of a text read line by line with CR LF as one end-of-line: t
\* is the text still to read, body the line being read, lines the lines of
\* the event being read.  A CR the text ends with is not read yet.
RECURSIVE ReadEvents(_, _, _)
ReadEvents(t, body, lines) ==
    IF t = <<>> \/ t = <<CR>> THEN <<>>
    ELSE IF t[1] \notin {CR, LF} THEN ReadEvents(Tail(t), Append(body, t[1]), lines)
    ELSE LET rest == IF t[1] = CR /\ t[2] = LF THEN Drop(t, 2) ELSE Tail(t)
         IN  IF body = <<>> THEN <<lines>> \o ReadEvents(rest, <<>>, <<>>)
             ELSE ReadEvents(rest, <<>>, Append(lines, LineOf(body)))

\* C16: wherever a CR is directly followed by an LF in the text fed,
\* end_of_line takes both as one end-of-line, and the events collected, in any
\* split of the text into pieces (between a CR and its LF too), are those of
\* the lines read with CR LF as one end-of-line: no empty event comes from
\* the LF of a CRLF.
C16_CrlfIsOneTerminator ==
    /\ \A i \in 1..(fed - 1) :
          (text[i] = CR /\ text[i + 1] = LF)
              => end_of_line(SubSeq(text, i, fed)) = Ok(SubSeq(text, i + 2, fed), <<CR, LF>>)
    /\ collected = ReadEvents(Prefix, <<>>, <<>>)

\* "a" CR LF CR LF fed whole: one event with the one line.
C16_Witness ==
    /\ text = <<97, CR, LF, CR, LF>>
    /\ fed = 5
    /\ collected = <<<<Field(<<97>>, None)>>>>
    /\ residue = <<>>

EmptyEvents(n) == [i \in 1..n |-> <<>>]

\* n LF characters give n empty events and no residue, and every blank line
\* read where an event would start gives an empty event, in its place among
\* the events.
EmptyEventsSurfaced ==
    /\ (\A i \in 1..Len(text) : text[i] = LF)
          => lexed.result = Ok(<<>>, EmptyEvents(Len(text)))
    /\ lexed.result.out = ReadEvents(text, <<>>, <<>>)

FirstIsEmpty == lexed.result.out # <<>> /\ lexed.result.out[1] = <<>>

\* C17 as stated: events on n LF characters gives n empty events and no
\* residue, and on a text that begins with an end-of-line (CRLF, CR or LF) it
\* gives an empty event first.
C17_EmptyEventsAnyTerminator ==
    lexed.parser = "events"
        => /\ EmptyEventsSurfaced
           /\ (text # <<>> /\ text[1] \in {CR, LF}) => FirstIsEmpty

\* C17: events on n LF characters gives n empty events and no residue, and on
\* a text that begins with an LF, a CRLF or a CR that another character
\* follows it gives an empty event first; every blank line it reads gives an
\* empty event.
C17_EmptyEventsSurfaced ==
    lexed.parser = "events"
        => /\ EmptyEventsSurfaced
           /\ (text # <<>> /\ text[1] \in {CR, LF} /\ text # <<CR>>) => FirstIsEmpty

\* Four LF characters parsed by events: four empty events.
C17_Witness ==
    /\ text = <<LF, LF, LF, LF>>
    /\ lexed.parser = "events"
    /\ lexed.result = Ok(<<>>, <<<<>>, <<>>, <<>>, <<>>>>)

\* The bytes of the Ok items of a sequence of items, in order.
RECURSIVE OkBytes(_)
OkBytes(its) ==
    IF its = <<>> THEN <<>>
    ELSE (IF its[1].tag = "Ok" THEN its[1].bytes ELSE <<>>) \o OkBytes(Tail(its))

\* C18: before the end of the input, the bytes of the Ok items so far followed
\* by the buffer are the bytes received so far, for valid and invalid chunks
\* alike; and a poll that receives a chunk adds exactly one item, an Ok one.
C18_ByteConservation ==
    /\ [](~terminated => OkBytes(items) \o buffer = received)
    /\ [][polled'.kind = "Bytes"
            => /\ Len(items') = Len(items) + 1
               /\ Take(items', Len(items)) = items
               /\ Last(items').tag = "Ok"]_vars

\* "A" and the first byte of a 4-byte character, then a chunk with its second
\* byte, which gives an empty Ok item.
C18_Witness ==
    /\ ~terminated
    /\ received = <<65, 240, 159>>
    /\ items = <<OkItem(<<65>>), OkItem(<<>>)>>
    /\ buffer = <<240, 159>>

\* C19: a buffer that is not empty is never valid UTF-8, and a poll that meets
\* the end of the input with such a buffer adds Err(Utf8) as the last item.
C19_BufferNeverValid ==
    /\ [](buffer # <<>> => ~FromUtf8(buffer).ok)
    /\ [][(polled'.kind = "End" /\ buffer # <<>>)
            => /\ Len(items') = Len(items) + 1
               /\ Last(items').tag = "Utf8"]_vars

\* The end met with the first byte of a 2-byte character buffered.
C19_Witness ==
    /\ terminated
    /\ polled.kind = "End"
    /\ items = <<OkItem(<<65>>), Utf8Err(<<195>>)>>
    /\ buffer = <<>>

\* The n-th character of t ends a blank line: it is the last character of an
\* end-of-line (of the CR LF pair when a CR comes directly before an LF) that
\* starts the text or comes directly after another end-of-line, and it is
\* not a CR whose end-of-line is still open (an LF or nothing after it).
EndsBlankLine(t, n) ==
    /\ t[n] \in {CR, LF}
    /\ t[n] = CR => (n < Len(t) /\ t[n + 1] # LF)
    /\ LET s == IF t[n] = LF /\ n > 1 /\ t[n - 1] = CR THEN n - 1 ELSE n
       IN  s = 1 \/ t[s - 1] \in {CR, LF}

EventBoundary(t, n) == n = 0 \/ EndsBlankLine(t, n)

IsSuffix(r, t) == Len(r) <= Len(t) /\ r = Drop(t, Len(t) - Len(r))

\* C20: the residue events returns is a suffix of the input that starts at
\* the input's start or directly after a blank line; events on the residue
\* alone returns no event and the same residue; there are at most as many
\* events as characters consumed; and every event that event returns leaves
\* a strictly shorter suffix of its input.
C20_ResidueIsFixpoint ==
    /\ lexed.parser = "events"
          => /\ lexed.result.tag = "Ok"
             /\ IsSuffix(lexed.result.rest, text)
             /\ EventBoundary(text, Len(text) - Len(lexed.result.rest))
             /\ events(lexed.result.rest) = Ok(lexed.result.rest, <<>>)
             /\ Len(lexed.result.out) <= Len(text) - Len(lexed.result.rest)
    /\ (lexed.parser = "event" /\ lexed.result.tag = "Ok")
          => /\ IsSuffix(lexed.result.rest, text)
             /\ Len(lexed.result.rest) < Len(text)

\* An empty event, then a whole line of an event that is not closed: the
\* residue starts at the line, after the blank line.
C20_Witness ==
    /\ text = <<CR, LF, 97, LF>>
    /\ lexed.parser = "events"
    /\ lexed.result = Ok(<<97, LF>>, <<<<>>>>)

====
